---- MODULE Spec2Model ----
(***************************************************************************)
(* Model of the Deep Q-Network training controller TFAModel                *)
(* (src/models/baseline_tfa_dqn.py) as driven by its caller (the dqn tab   *)
(* of src/main.py, or any other sequence of calls on one instance).        *)
(*                                                                         *)
(* Optional values (Python None / a value) are sequences of length 0 / 1.  *)
(* A call to train is a sequence of steps (pc); the other methods are      *)
(* single steps taken while no train call is running (pc = "idle").        *)
(***************************************************************************)
EXTENDS Integers, Sequences, FiniteSets, TLC

\* ---------------------------------------------------------------- bounds
MaxIterations == 2
MaxCollectSteps == 2
MaxBufferLength == 2
MaxInterval == 2
MaxTrainCalls == 2

\* ------------------------------------------------------- program constants
\* num_steps=2 of the sampling dataset: a sample is two adjacent transitions
num_steps == 2

AgentNotInitialized == "Agent has not been initialized"
BufferNotBuilt == "Unbuilt replay buffer"
AttributeError == "AttributeError"
SampleError == "InvalidArgumentError"
OptimizerError == "OptimizerError"
Ok == "ok"
Running == "running"

None == <<>>
Some(x) == <<x>>
Get(o) == o[1]

\* values a policy rollout (dqn_sim) can return, and outcomes of agent.train
ReturnValues == {"low", "high"}
LossValues == {"finite", "nan"}

VARIABLES
    num_iterations, collect_steps_per_iteration, replay_buffer_max_length,
    eval_interval, log_interval, debugging,
    agent, repl_buffer, iterator, log, returns, npv, priced,
    pc, i, n, train_loss, last_call, stop_signal,
    last_rollout, bar,
    h_inserted, h_train_inserted, h_sampled, h_events, h_init_done,
    h_build_done, h_train_done, h_train_calls,
    params, option, option_call,
    session, run

config == <<num_iterations, collect_steps_per_iteration,
            replay_buffer_max_length, eval_interval, log_interval,
            debugging>>
fields == <<agent, repl_buffer, iterator, log, returns, npv, priced>>
control == <<pc, i, n, train_loss, last_call, stop_signal>>
envs == <<last_rollout>>
ui == <<bar>>
history == <<h_inserted, h_train_inserted, h_sampled, h_events, h_init_done,
             h_build_done, h_train_done, h_train_calls>>
contract == <<params, option, option_call>>
page == <<session, run>>
outside == <<contract, page>>
vars == <<config, fields, control, envs, ui, history, outside>>

\* ------------------------------------------------------------ constructor
InitModel ==
    /\ num_iterations \in 0..MaxIterations
    /\ collect_steps_per_iteration \in 1..MaxCollectSteps
    /\ replay_buffer_max_length \in 1..MaxBufferLength
    /\ eval_interval \in 1..MaxInterval
    /\ log_interval \in 1..MaxInterval
    /\ agent = None /\ repl_buffer = None /\ iterator = None
    /\ log = None /\ returns = None
    /\ npv = None
    /\ priced = FALSE
    /\ pc = "idle" /\ i = 0 /\ n = 0 /\ train_loss = None
    /\ last_call = [op |-> "__init__", result |-> Ok]
    /\ stop_signal = FALSE
    /\ last_rollout = None
    /\ bar = None
    /\ h_inserted = 0 /\ h_train_inserted = 0 /\ h_sampled = 0
    /\ h_events = <<>>
    /\ h_init_done = FALSE /\ h_build_done = FALSE /\ h_train_done = FALSE
    /\ h_train_calls = 0

\* no contract is being built
NoContract ==
    /\ params = <<>>
    /\ option = None
    /\ option_call = None

\* no page of main.py is being run
NoPage ==
    /\ session = None
    /\ run = None

\* the controller as main.py builds it: debugging keeps its default
Init ==
    /\ InitModel
    /\ debugging = FALSE
    /\ NoContract
    /\ NoPage

Returned(op, result) == last_call' = [op |-> op, result |-> result]

\* a rollout of `policy` on `env` for `eps` episodes whose mean return is
\* `mean`, one of ReturnValues
dqn_sim(policy, env, eps, mean) ==
    last_rollout' = Some([policy |-> policy, env |-> env, eps |-> eps,
                          mean |-> mean])

\* --------------------------------------------------------------- init_agent
init_agent ==
    /\ pc = "idle"
    /\ agent' = Some([train_step_counter |-> 0])
    /\ h_init_done' = TRUE
    /\ Returned("init_agent", Ok)
    /\ UNCHANGED <<config, outside, ui, repl_buffer, iterator, log, returns, npv, priced,
                   pc, i, n, train_loss, stop_signal, envs,
                   h_inserted, h_train_inserted, h_sampled, h_events,
                   h_build_done, h_train_done, h_train_calls>>

\* ------------------------------------------------------ build_replay_buffer
\* line 94: `if self._agent is None`
AgentMissing_wrong == FALSE

AgentMissing == agent = None

\* line 100: the capacity handed to TFUniformReplayBuffer
BufferCapacity_wrong == replay_buffer_max_length + 1

BufferCapacity == replay_buffer_max_length

build_replay_buffer ==
    /\ pc = "idle"
    /\ IF AgentMissing
       THEN /\ Returned("build_replay_buffer", AgentNotInitialized)
            /\ UNCHANGED <<repl_buffer, iterator, h_inserted, h_build_done>>
       ELSE /\ repl_buffer' = Some([max_length |-> BufferCapacity,
                                    items |-> <<>>])
            /\ iterator' = Some("iter(dataset)")
            /\ h_inserted' = 0
            /\ h_build_done' = TRUE
            /\ Returned("build_replay_buffer", Ok)
    /\ UNCHANGED <<config, outside, ui, agent, log, returns, npv, priced,
                   pc, i, n, train_loss, stop_signal, envs,
                   h_train_inserted, h_sampled, h_events, h_init_done,
                   h_train_done, h_train_calls>>

\* ------------------------------------------------------------ _collect_step
\* TFUniformReplayBuffer.add_batch: a circular store of max_length rows, the
\* oldest row is overwritten once the store is full
add_batch(buffer, trj) ==
    [buffer EXCEPT !.items =
        IF Len(@) >= buffer.max_length
        THEN Append(Tail(@), trj)
        ELSE Append(@, trj)]

\* one step of `policy` on `env`, recorded in `buffer`
CollectStepResult(env, policy, buffer, id) ==
    add_batch(buffer, [id |-> id, env |-> env, policy |-> policy])

\* -------------------------------------------------------------------- train
LogEntry(label, step, metric, value) ==
    [label |-> label, step |-> step, metric |-> metric, value |-> value]

\* an exception leaves train: the locals of the running iteration are gone
TrainAbort(err) ==
    /\ pc' = "idle"
    /\ i' = 0 /\ n' = 0 /\ train_loss' = None
    /\ h_events' = <<>> /\ h_train_inserted' = 0 /\ h_sampled' = 0
    /\ Returned("train", err)

\* st.progress(value, text): the fraction shown and the count its text names
Progress(num, den, text, count) ==
    Some([num |-> num, den |-> den, text |-> text, count |-> count])

\* lines 154-157: the progress reported at the head of pass i of the loop
\* (i counts from 0), before _train_iteration runs
ProgressAtPass(k) ==
    Progress(k + 1, num_iterations,
             IF (k + 1) % eval_interval = 0 THEN "Evaluating Return..."
                                             ELSE "Training Model...",
             k + 1)

\* line 136: `if self._repl_buffer is None`
BufferMissing_wrong == agent = None

BufferMissing == repl_buffer = None

\* lines 136-148: the guard, the counter reset and the step-0 evaluation
train ==
    /\ pc = "idle"
    /\ IF BufferMissing
       THEN /\ Returned("train", BufferNotBuilt)
            /\ UNCHANGED <<agent, log, returns, pc, i, h_train_calls,
                           h_train_inserted, h_sampled, last_rollout, bar>>
       ELSE /\ h_train_calls < MaxTrainCalls
            /\ agent' = Some([Get(agent) EXCEPT !.train_step_counter = 0])
            /\ \E avg_return \in ReturnValues :
                 /\ dqn_sim("policy", "eval_env", "num_eval_episodes",
                            avg_return)
                 /\ log' = Some(<<LogEntry("Step", 0, "Average Return",
                                           avg_return)>>)
                 /\ returns' = Some(<<avg_return>>)
            /\ pc' = "loop"
            /\ i' = 0
            /\ h_train_calls' = h_train_calls + 1
            /\ h_train_inserted' = 0
            /\ h_sampled' = 0
            /\ Returned("train", Running)
            /\ bar' = IF debugging THEN bar
                      ELSE Progress(0, 1, "Training Model...", 0)
    /\ UNCHANGED <<config, outside, repl_buffer, iterator, npv, priced, n, train_loss,
                   stop_signal, h_inserted, h_events,
                   h_init_done, h_build_done, h_train_done>>

\* line 149 and 159-160: the head of `for i in range(num_iterations)`
train_loop ==
    /\ pc = "loop"
    /\ IF i < num_iterations
       THEN /\ pc' = "collect"
            /\ n' = 0
            /\ h_events' = <<>>
            /\ bar' = IF debugging THEN bar ELSE ProgressAtPass(i)
            /\ UNCHANGED <<last_call, h_train_done, train_loss, i,
                           h_train_inserted, h_sampled>>
       ELSE /\ pc' = "idle"
            /\ i' = 0 /\ n' = 0 /\ train_loss' = None
            /\ h_events' = <<>> /\ h_train_inserted' = 0 /\ h_sampled' = 0
            /\ Returned("train", Ok)
            /\ h_train_done' = TRUE
            /\ bar' = IF debugging THEN bar
                      ELSE Progress(1, 1, "Model Trained", num_iterations)
    /\ UNCHANGED <<config, outside, fields, stop_signal, envs, h_inserted, h_init_done,
                   h_build_done, h_train_calls>>

\* line 111: `for n in range(self._collect_steps_per_iteration)`
CollectLoopContinues_wrong(k) == k < collect_steps_per_iteration - 1

CollectLoopContinues(k) == k < collect_steps_per_iteration

\* lines 111-115: one pass of the collection loop of _train_iteration
train_iteration_collect ==
    /\ pc = "collect"
    /\ CollectLoopContinues(n)
    /\ repl_buffer' = Some(CollectStepResult("train_env", "collect_policy",
                                             Get(repl_buffer), h_inserted + 1))
    /\ h_inserted' = h_inserted + 1
    /\ h_train_inserted' = h_train_inserted + 1
    /\ h_events' = Append(h_events, "collect")
    /\ n' = n + 1
    /\ pc' = IF CollectLoopContinues(n + 1) THEN "collect" ELSE "sample"
    /\ UNCHANGED <<config, outside, ui, agent, iterator, log, returns, npv, priced,
                   i, train_loss, last_call, stop_signal, last_rollout,
                   h_sampled, h_init_done, h_build_done, h_train_done,
                   h_train_calls>>

\* line 117: the buffer after next(self._iterator): sampling copies rows
\* out of the store and removes none
AfterSample_wrong(buffer) == [buffer EXCEPT !.items = Tail(@)]

AfterSample(buffer) == buffer

\* line 117: next(self._iterator); a sample is num_steps adjacent rows
train_iteration_sample ==
    /\ pc = "sample"
    /\ IF Len(Get(repl_buffer).items) < num_steps
       THEN /\ TrainAbort(SampleError)
            /\ UNCHANGED repl_buffer
       ELSE /\ pc' = "optimize"
            /\ repl_buffer' = Some(AfterSample(Get(repl_buffer)))
            /\ h_sampled' = h_sampled + 1
            /\ h_events' = Append(h_events, "sample")
            /\ UNCHANGED <<last_call, train_loss, i, n, h_train_inserted>>
    /\ UNCHANGED <<config, outside, ui, agent, iterator, log, returns, npv, priced,
                   stop_signal, envs, h_inserted, h_init_done,
                   h_build_done, h_train_done, h_train_calls>>

\* line 118: self._agent.train(exp).loss; the optimizer step raises, or
\* returns a loss (possibly NaN) and advances train_step_counter by one
train_iteration_optimize ==
    /\ pc = "optimize"
    /\ \/ /\ TrainAbort(OptimizerError)
          /\ UNCHANGED agent
       \/ \E loss \in LossValues :
          /\ agent' = Some([Get(agent) EXCEPT !.train_step_counter = @ + 1])
          /\ train_loss' = Some(loss)
          /\ pc' = "record"
          /\ h_events' = Append(h_events, "train")
          /\ UNCHANGED <<last_call, i, n, h_train_inserted, h_sampled>>
    /\ UNCHANGED <<config, outside, ui, repl_buffer, iterator, log, returns, npv, priced,
                   stop_signal, envs, h_inserted, h_init_done, h_build_done,
                   h_train_done, h_train_calls>>

\* lines 128 and 132: self._log.append(...)
LogAppend_wrong(lg, entry) == <<entry>>

LogAppend(lg, entry) == Append(lg, entry)

\* lines 124-128: the loss entry

LossLogged(lg, step, loss) ==
    IF step % log_interval = 0
    THEN LogAppend(lg, LogEntry("step", step, "loss", loss))
    ELSE lg

\* line 130: `if step % self._eval_interval == 0`
EvalDue_wrong(step) == (step - 1) % eval_interval = 0

EvalDue(step) == step % eval_interval = 0

\* lines 120-133: the log and evaluation tail of _train_iteration, and the
\* end of one pass of the loop of train
train_iteration_record ==
    /\ pc = "record"
    /\ LET step == Get(agent).train_step_counter
           lg == LossLogged(Get(log), step, Get(train_loss))
       IN IF EvalDue(step)
          THEN \E avg_return \in ReturnValues :
                    /\ dqn_sim("policy", "eval_env", "num_eval_episodes",
                               avg_return)
                    /\ log' = Some(LogAppend(lg, LogEntry("step", step,
                                        "Average Return", avg_return)))
                    /\ returns' = Some(Append(Get(returns), avg_return))
          ELSE /\ log' = Some(lg)
               /\ UNCHANGED <<returns, last_rollout>>
    /\ i' = i + 1
    /\ pc' = "loop"
    /\ UNCHANGED <<config, outside, ui, agent, repl_buffer, iterator, npv, priced,
                   n, train_loss, last_call, stop_signal, history>>

\* ------------------------------------------------------------- calculate_npv
\* line 187: eps=self._n_sims
NpvEpisodes_wrong == "num_eval_episodes"

NpvEpisodes == "n_sims"

calculate_npv ==
    /\ pc = "idle"
    /\ IF agent = None
       THEN /\ Returned("calculate_npv", AttributeError)
            /\ UNCHANGED <<npv, priced, last_rollout>>
       ELSE /\ \E mean \in ReturnValues :
                 /\ dqn_sim("policy", "eval_env", NpvEpisodes, mean)
                 /\ npv' = Some(mean)
            /\ priced' = TRUE
            /\ Returned("calculate_npv", Ok)
    /\ UNCHANGED <<config, outside, ui, agent, repl_buffer, iterator, log, returns,
                   pc, i, n, train_loss, stop_signal, history>>

\* ------------------------------------------------------------------ accessors
train_log ==
    /\ pc = "idle"
    /\ Returned("train_log", Ok)
    /\ UNCHANGED <<config, outside, ui, fields, pc, i, n, train_loss, stop_signal, envs,
                   history>>

train_returns ==
    /\ pc = "idle"
    /\ Returned("train_returns", Ok)
    /\ UNCHANGED <<config, outside, ui, fields, pc, i, n, train_loss, stop_signal, envs,
                   history>>

\* Python's range(start, stop, step) for step > 0
RECURSIVE Range(_, _, _)
Range(start, stop, step) ==
    IF start >= stop THEN <<>>
    ELSE <<start>> \o Range(start + step, stop, step)

\* str(x) of an integer
Str(x) == [str |-> x]

\* line 164: the stop of the range of iteration labels
LabelStop_wrong == num_iterations

LabelStop == num_iterations + 1

\* lines 162-168: the two columns of the chart
train_iteration_dict ==
    [Iterations |-> LET r == Range(0, LabelStop, eval_interval)
                    IN [k \in 1..Len(r) |-> Str(r[k])],
     AverageReturn |-> returns]

\* --------------------------------------------------------------- the caller
\* the caller raises its stop signal while a train call is running
request_stop ==
    /\ pc # "idle"
    /\ ~stop_signal
    /\ stop_signal' = TRUE
    /\ UNCHANGED <<config, outside, ui, fields, pc, i, n, train_loss, last_call, envs,
                   h_inserted, h_train_inserted, h_sampled, h_events,
                   h_init_done, h_build_done, h_train_done, h_train_calls>>

Next ==
    \/ init_agent
    \/ build_replay_buffer
    \/ train
    \/ train_loop
    \/ train_iteration_collect
    \/ train_iteration_sample
    \/ train_iteration_optimize
    \/ train_iteration_record
    \/ calculate_npv
    \/ train_log
    \/ train_returns

Spec == Init /\ [][Next]_vars

\* the controller with a caller that may raise its stop signal during train
NextStop ==
    \/ Next
    \/ request_stop

SpecStop == Init /\ [][NextStop]_vars

\* the controller in either mode of its debugging flag
InitProgress ==
    /\ InitModel
    /\ debugging \in BOOLEAN
    /\ NoContract
    /\ NoPage

SpecProgress == InitProgress /\ [][Next]_vars

TypeOK ==
    /\ pc \in {"idle", "loop", "collect", "sample", "optimize", "record"}
    /\ i \in 0..MaxIterations
    /\ Len(agent) <= 1 /\ Len(repl_buffer) <= 1 /\ Len(log) <= 1

\* ================================================================ properties
IsPrefix(s, t) == Len(s) <= Len(t) /\ \A k \in 1..Len(s) : s[k] = t[k]

IterationPcs == {"collect", "sample", "optimize", "record"}

\* C1: while the agent is unset, a call of build_replay_buffer returns the
\* AgentNotInitialized error and changes no field of the controller: no
\* replay buffer and no sampling iterator is created.
C1_BuildBeforeInitFails ==
    [][(agent = None /\ last_call'.op = "build_replay_buffer")
       => /\ last_call'.result = AgentNotInitialized
          /\ repl_buffer' = None /\ iterator' = None
          /\ UNCHANGED <<config, outside, ui, fields, pc, envs>>]_vars

C1_Witness ==
    /\ agent = None /\ repl_buffer = None /\ iterator = None
    /\ last_call = [op |-> "build_replay_buffer",
                    result |-> AgentNotInitialized]

\* C2: while the replay buffer is unset (agent set or not), a call of train
\* returns the BufferNotBuilt error before any effect: the step counter, the
\* log, the returns series and the buffer are unchanged and no iteration runs.
C2_TrainBeforeBuildFails ==
    [][(repl_buffer = None /\ last_call'.op = "train")
       => /\ last_call'.result = BufferNotBuilt
          /\ pc' = "idle"
          /\ UNCHANGED <<config, outside, ui, fields, envs, h_train_inserted, h_sampled>>]_vars

C2_Witness ==
    /\ agent # None /\ repl_buffer = None /\ log = None /\ returns = None
    /\ Get(agent).train_step_counter = 0
    /\ last_call = [op |-> "train", result |-> BufferNotBuilt]

\* C3 (as claimed): as long as no train call has completed, every call of
\* calculate_npv has failed (the claim names the error NotTrained), npv is
\* unset and the model is not marked as priced.
C3_NpvBeforeTrainedFails ==
    ~h_train_done =>
        /\ npv = None
        /\ ~priced
        /\ last_call.op = "calculate_npv" => last_call.result # Ok

\* C4 (as claimed): a training iteration runs only after init_agent and
\* build_replay_buffer completed, and an NPV exists only after a train call
\* has completed.
C4_LifecycleOrder ==
    /\ pc # "idle" => h_init_done /\ h_build_done
    /\ h_build_done => h_init_done
    /\ npv # None => h_train_done

\* the events of one complete training iteration, in order
IterationEvents ==
    [k \in 1..(collect_steps_per_iteration + 2) |->
        IF k <= collect_steps_per_iteration THEN "collect"
        ELSE IF k = collect_steps_per_iteration + 1 THEN "sample"
        ELSE "train"]

\* C5: inside an iteration the events so far are a prefix of
\* collect^collect_steps_per_iteration, sample, train; the iteration is over
\* exactly when all of them happened; and after k completed iterations of a
\* train call the buffer received k * collect_steps_per_iteration transitions,
\* k batches were sampled and the train step counter is k.
C5_IterationShape ==
    /\ pc \in IterationPcs => IsPrefix(h_events, IterationEvents)
    /\ pc = "record" => h_events = IterationEvents
    /\ pc \in {"loop", "collect"} =>
          /\ h_train_inserted = i * collect_steps_per_iteration + n * (IF pc = "collect" THEN 1 ELSE 0)
          /\ h_sampled = i
          /\ Get(agent).train_step_counter = i
    /\ pc = "record" =>
          /\ h_train_inserted = (i + 1) * collect_steps_per_iteration
          /\ h_sampled = i + 1
          /\ Get(agent).train_step_counter = i + 1

C5_Witness ==
    /\ pc = "loop" /\ i = 2 /\ collect_steps_per_iteration = 2
    /\ h_train_inserted = 4 /\ Get(agent).train_step_counter = 2

Indices(lg, metric, s) ==
    {k \in 1..Len(lg) : lg[k].metric = metric /\ lg[k].step = s
                        /\ lg[k].label = "step"}

\* C6: while train runs, after its optimizer steps 1..i the log holds exactly
\* one loss entry for step s when s is a multiple of log_interval and none
\* otherwise, exactly one Average Return entry for step s when s is a
\* multiple of eval_interval and none otherwise, the loss entry of a step
\* before its Average Return entry, and the returns series holds the step-0
\* value followed by the logged averages in order.
C6_LogCadence ==
    pc # "idle" =>
      LET lg == Get(log) IN
      /\ \A k \in 1..Len(lg) : lg[k].step \in 0..i
      /\ \A s \in 1..i :
            /\ Cardinality(Indices(lg, "loss", s))
                 = IF s % log_interval = 0 THEN 1 ELSE 0
            /\ Cardinality(Indices(lg, "Average Return", s))
                 = IF s % eval_interval = 0 THEN 1 ELSE 0
            /\ \A a \in Indices(lg, "loss", s) :
                 \A b \in Indices(lg, "Average Return", s) : a < b
      /\ LET avgs == SelectSeq(lg, LAMBDA e : e.metric = "Average Return")
         IN /\ Len(Get(returns)) = Len(avgs)
            /\ \A k \in 1..Len(avgs) : Get(returns)[k] = avgs[k].value

C6_Witness ==
    /\ pc = "loop" /\ i = 2 /\ log_interval = 2 /\ eval_interval = 2
    /\ Len(Get(log)) = 3
    /\ Get(log)[2].metric = "loss" /\ Get(log)[3].metric = "Average Return"
    /\ Get(log)[2].step = 2 /\ Get(log)[3].step = 2

\* C7 (as claimed): once the log exists, every step of the controller keeps
\* it and only appends to it.
C7_LogAppendOnlyAlways ==
    [][log # None => (log' # None /\ IsPrefix(Get(log), Get(log')))]_vars

\* C7 (amended): the log is append-only from the start of one train call to
\* the start of the next; the start of a train call replaces it by a log that
\* holds only the step-0 entry; no operation outside train changes it.
C7_LogAppendOnlyPerTrainCall ==
    [][/\ (pc = "idle" /\ pc' = "loop")
            => (Len(Get(log')) = 1 /\ Get(log')[1].step = 0)
       /\ (log # None /\ ~(pc = "idle" /\ pc' = "loop"))
            => (log' # None /\ IsPrefix(Get(log), Get(log')))
       /\ (pc = "idle" /\ pc' = "idle") => log' = log]_vars

C7_Witness ==
    /\ h_train_calls = 2 /\ pc = "loop" /\ i = 2 /\ Len(Get(log)) >= 3

\* C8: the replay buffer never holds more than replay_buffer_max_length
\* transitions, and it holds exactly the most recently added ones in the
\* order they were added (each addition to a full buffer evicted the oldest).
C8_BufferBoundedFifo ==
    repl_buffer # None =>
      LET items == Get(repl_buffer).items IN
      /\ Len(items) <= replay_buffer_max_length
      /\ Len(items) = IF h_inserted < replay_buffer_max_length
                      THEN h_inserted ELSE replay_buffer_max_length
      /\ \A k \in 1..Len(items) : items[k].id = h_inserted - Len(items) + k

C8_Witness ==
    /\ repl_buffer # None
    /\ h_inserted > replay_buffer_max_length
    /\ Len(Get(repl_buffer).items) = replay_buffer_max_length
    /\ Get(repl_buffer).items[1].id > 1

\* C9 (as claimed): once an optimizer step has returned a NaN loss, no later
\* iteration of that train call executes.
C9_DivergenceHalts ==
    ~(train_loss = Some("nan") /\ pc = "collect")

\* C10 (as claimed): once the stop signal is raised, train starts no further
\* iteration.
C10_StopHonoured ==
    [][(stop_signal /\ pc = "loop") => pc' # "collect"]_vars

\* ==================================================== Option (abstract.py)
MaxDays == 1
MaxOptionCalls == 2

\* one controller, not in use
OneModel ==
    /\ InitModel
    /\ debugging = FALSE
    /\ num_iterations = 0 /\ collect_steps_per_iteration = 1
    /\ replay_buffer_max_length = 1 /\ eval_interval = 1 /\ log_interval = 1

MissingParams == "Missing Params"

\* values of a parameter mapping: a calendar date (days from today), a
\* float (num / den), a string, a torch tensor
Date(days) == [kind |-> "date", num |-> days, den |-> 1]
Float(num, den) == [kind |-> "float", num |-> num, den |-> den]
OptionType(t) == [kind |-> "str", num |-> t, den |-> 1]
tensor(v) == [v EXCEPT !.kind = "tensor"]

\* line 15: (maturity - date.today()) / timedelta(days=365)
DaysPerYear == 365

MaturityYears(maturity) == Float(maturity.num, DaysPerYear)

RequiredKeys == {"maturity", "option_type", "spot", "strike",
                 "implied_volatility", "risk_free_rate", "dividend_rate"}

\* lines 21-26: the keys read into the fields of the contract
FieldKeys_wrong == {"spot", "strike", "maturity", "implied_volatility",
                    "risk_free_rate"}

FieldKeys == {"spot", "strike", "maturity", "implied_volatility",
              "risk_free_rate", "dividend_rate"}

NumberChoices == {0, 1}

\* lines 13-29 of Option.__init__: the mapping left to the caller, the fields
\* of the contract and the error raised, if any
OptionInit(p, with_tensors) ==
    IF "maturity" \notin DOMAIN p \/ p["maturity"].kind # "date"
    THEN [err |-> MissingParams, params |-> p, fields |-> None]
    ELSE
      LET p1 == [p EXCEPT !["maturity"] = MaturityYears(@)]
          local == IF with_tensors
                   THEN [k \in DOMAIN p1 \ {"option_type"} |-> tensor(p1[k])]
                   ELSE p1
      IN IF "option_type" \notin DOMAIN p1 \/ ~(FieldKeys \subseteq DOMAIN local)
         THEN [err |-> MissingParams, params |-> p1, fields |-> None]
         ELSE [err |-> Ok, params |-> p1,
               fields |-> Some([k \in FieldKeys \cup {"option_type"} |->
                                  IF k = "option_type" THEN p1[k]
                                  ELSE local[k]])]

InitOption ==
    /\ OneModel
    /\ \E keys \in SUBSET RequiredKeys :
       \E days \in (0 - MaxDays)..MaxDays :
       \E spot \in NumberChoices, strike \in NumberChoices,
          iv \in NumberChoices :
          params = [k \in keys |->
                      CASE k = "maturity" -> Date(days)
                        [] k = "option_type" -> OptionType("C")
                        [] k = "spot" -> Float(spot, 1)
                        [] k = "strike" -> Float(strike, 1)
                        [] k = "implied_volatility" -> Float(iv, 1)
                        [] k = "risk_free_rate" -> Float(5, 100)
                        [] OTHER -> Float(1, 100)]
    /\ option = None
    /\ option_call = None
    /\ NoPage

\* Option(params, with_tensors) called on the caller's mapping
option_init ==
    /\ \/ option_call = None
       \/ option_call # None /\ Get(option_call).n < MaxOptionCalls
    /\ \E with_tensors \in BOOLEAN :
         LET r == OptionInit(params, with_tensors) IN
         /\ params' = r.params
         /\ option' = r.fields
         /\ option_call' = Some([n |-> IF option_call = None THEN 1
                                       ELSE Get(option_call).n + 1,
                                 input |-> params,
                                 with_tensors |-> with_tensors,
                                 err |-> r.err])
    /\ UNCHANGED <<config, fields, control, envs, ui, history, page>>

NextOption ==
    \/ option_init

SpecOption == InitOption /\ [][NextOption]_vars

\* a mapping whose present values are valid: the maturity is a date
ValidValues(p) == "maturity" \in DOMAIN p => p["maturity"].kind = "date"

\* C12: a construction from a mapping with valid values fails with Missing
\* Params exactly when one of the seven required keys is absent, and
\* otherwise yields a contract.
C12_MissingKeyFails ==
    (option_call # None /\ ValidValues(Get(option_call).input)) =>
       /\ Get(option_call).err = MissingParams
             <=> ~(RequiredKeys \subseteq DOMAIN Get(option_call).input)
       /\ Get(option_call).err = Ok <=> option # None

C12_Witness ==
    /\ option_call # None
    /\ DOMAIN Get(option_call).input = RequiredKeys \ {"dividend_rate"}
    /\ ValidValues(Get(option_call).input)
    /\ Get(option_call).err = MissingParams
    /\ option = None

Positive(v) == v.num > 0 /\ v.den > 0

\* C13 (as claimed): every contract that was constructed has a positive
\* maturity in years, volatility, spot and strike.
C13_NoInvalidContract ==
    option # None =>
       /\ Positive(Get(option)["maturity"])
       /\ Positive(Get(option)["implied_volatility"])
       /\ Positive(Get(option)["spot"])
       /\ Positive(Get(option)["strike"])

\* C14 (as claimed): a construction, successful or not, leaves the caller's
\* mapping as it was.
C14_ParamsUntouched ==
    option_call # None => params = Get(option_call).input

\* ================================================ the page script (main.py)
\* one run of the script: the tabs run top to bottom with the values the user
\* left in the forms and the one button, if any, that was clicked

\* lines 35-43: the keys of DEFAULTS
DEFAULTS == {"maturity", "custom_maturity", "risk_free_rate", "spot",
             "strike", "implied_volatility", "dividend_rate"}

\* abstract.py lines 75-81: the keys inputs() reads from its `defaults`
InputsKeys == {"spot", "strike", "volatility", "dividend_rate",
               "risk_free_rate", "maturity"}

\* the mappings inputs() is given: the one main.py passes, and one that
\* also holds every key inputs() reads
DefaultsChoices == {DEFAULTS, DEFAULTS \cup InputsKeys}

AllModels == "All Models"
MODELS_us == {"Binomial Tree", "Deep Q-Network"}
MODELS_eu == {"Black Scholes", "Monte Carlo"}

\* what the user left in one form
Entries(days, model, submit) ==
    [opttype |-> "C", s0 |-> 100, k |-> 90, iv |-> 20, d |-> 1, r |-> 5,
     maturity |-> days, model |-> model, submit |-> submit]

\* abstract.py lines 72-85: inputs(region_models, defaults), the tuple it
\* returns or the KeyError of a key its defaults lack
inputs(defaults, e) ==
    IF ~(InputsKeys \subseteq defaults)
    THEN [err |-> "KeyError", value |-> <<>>]
    ELSE [err |-> Ok,
          value |-> <<e.opttype, e.s0, e.k, e.iv, e.d, e.r, e.maturity,
                      e.model, e.submit>>]

\* lines 113 and 136: the names main.py binds the tuple to
Unpack(t) ==
    [opttype |-> t[1], s0 |-> t[2], k |-> t[3], volatility |-> t[4],
     risk_free_r |-> t[5], d |-> t[6], maturity |-> t[7], model |-> t[8],
     submit |-> t[9]]

\* lines 118-123 and 144-149: the keyword arguments of USOption / EUOption
OptionKwargs(v) ==
    [option_type |-> v.opttype, strike |-> v.k, spot |-> v.s0,
     maturity |-> v.maturity, implied_volatility |-> v.volatility,
     risk_free_rate |-> v.risk_free_r, dividend_rate |-> v.d]

\* lines 126-129 and 151-154: `if model == "all models"` ... else
Dispatch(model) ==
    IF model = "all models"
    THEN [call |-> "all", arg |-> "all models"]
    ELSE [call |-> "priced", arg |-> model]

\* the list opt.all() / [opt.priced(model)] evaluates to
Priced(dispatch) == <<dispatch>>

InitPage ==
    /\ OneModel
    /\ NoContract
    /\ \E defaults \in DefaultsChoices :
       \E click \in {"none", "nasdaq", "american", "eu"} :
       \E am_days \in (0 - MaxDays)..MaxDays, eu_days \in (0 - MaxDays)..MaxDays :
       \E nq_model \in MODELS_us \cup {AllModels} :
       \E am_model \in MODELS_us \cup {AllModels} :
       \E eu_model \in MODELS_eu \cup {AllModels} :
          session = Some([defaults |-> defaults, click |-> click,
                          nasdaq |-> Entries(MaxDays, nq_model, click = "nasdaq"),
                          american |-> Entries(am_days, am_model, click = "american"),
                          eu |-> Entries(eu_days, eu_model, click = "eu")])
    /\ run = Some([pc |-> "nasdaq", priced_options |-> None,
                   dispatch |-> None, opt |-> None, shown |-> <<>>,
                   failure |-> None])

Show(r, kind, what) == [r EXCEPT !.shown = Append(@, [kind |-> kind, what |-> what])]

\* lines 107-108, 131-132, 156-157: `for priced_option in priced_options`
DisplayLoop(r) ==
    IF r.priced_options = None
    THEN [r EXCEPT !.failure = Some("NameError"), !.pc = "failed"]
    ELSE IF Get(r.priced_options) = <<>> THEN r
    ELSE Show(r, "success", Get(r.priced_options))

\* lines 62-108
NasdaqTab(r, e) ==
    IF ~e.submit THEN [r EXCEPT !.pc = "american"]
    ELSE
      LET r1 == [r EXCEPT !.opt = Some("USOption"), !.pc = "american"]
          r2 == IF e.model = "all models"
                THEN [r1 EXCEPT !.dispatch = Some([call |-> "all", arg |-> "all models"]),
                                !.priced_options = Some(Priced([call |-> "all", arg |-> "all models"]))]
                ELSE IF e.model = "Deep Q-Network"
                THEN [Show(r1, "error", <<"DQN Not Yet Supported">>)
                         EXCEPT !.priced_options = Some(<<>>)]
                ELSE [r1 EXCEPT !.dispatch = Some([call |-> "priced", arg |-> e.model]),
                                !.priced_options = Some(Priced([call |-> "priced", arg |-> e.model]))]
      IN DisplayLoop(Show(r2, "info", <<"Contract Mark">>))

\* lines 110-132
AmericanTab(r, defaults, e) ==
    LET got == inputs(defaults, e) IN
    IF got.err # Ok
    THEN [r EXCEPT !.failure = Some(got.err), !.pc = "failed"]
    ELSE
      LET v == Unpack(got.value) IN
      IF v.maturity < 0
      THEN [Show(r, "error", <<"Contract Expired">>) EXCEPT !.pc = "eu"]
      ELSE IF v.submit
      THEN DisplayLoop([r EXCEPT !.opt = Some(OptionKwargs(v)),
                                 !.dispatch = Some(Dispatch(v.model)),
                                 !.priced_options = Some(Priced(Dispatch(v.model))),
                                 !.pc = "eu"])
      ELSE [r EXCEPT !.pc = "eu"]

\* lines 133-157
EuTab(r, defaults, e) ==
    LET got == inputs(defaults, e) IN
    IF got.err # Ok
    THEN [r EXCEPT !.failure = Some(got.err), !.pc = "failed"]
    ELSE
      LET v == Unpack(got.value) IN
      IF v.maturity < 0
      THEN [Show(r, "error", <<"Contract Expired">>) EXCEPT !.pc = "dqn"]
      ELSE IF v.submit
      THEN IF v.maturity < 1
           THEN DisplayLoop([Show(r, "error", <<"Maturity Date Already Passed">>)
                                EXCEPT !.pc = "dqn"])
           ELSE DisplayLoop([r EXCEPT !.opt = Some(OptionKwargs(v)),
                                      !.dispatch = Some(Dispatch(v.model)),
                                      !.priced_options = Some(Priced(Dispatch(v.model))),
                                      !.pc = "dqn"])
      ELSE [r EXCEPT !.pc = "dqn"]

nasdaq_tab ==
    /\ run # None /\ Get(run).pc = "nasdaq"
    /\ run' = Some(NasdaqTab(Get(run), Get(session).nasdaq))
    /\ UNCHANGED <<config, fields, control, envs, ui, history, contract, session>>

american_tab ==
    /\ run # None /\ Get(run).pc = "american"
    /\ run' = Some(AmericanTab(Get(run), Get(session).defaults,
                               Get(session).american))
    /\ UNCHANGED <<config, fields, control, envs, ui, history, contract, session>>

eu_tab ==
    /\ run # None /\ Get(run).pc = "eu"
    /\ run' = Some(EuTab(Get(run), Get(session).defaults, Get(session).eu))
    /\ UNCHANGED <<config, fields, control, envs, ui, history, contract, session>>

NextPage ==
    \/ nasdaq_tab
    \/ american_tab
    \/ eu_tab

SpecPage == InitPage /\ [][NextPage]_vars

\* the form whose button was clicked in this run
Clicked == Get(session)[Get(session).click]

\* C15 (as claimed): whenever a tab dispatched, the "All Models" selection
\* went to the price-all path and any other selection went to the
\* single-model path under its own name.
C15_AllModelsDispatch ==
    (run # None /\ Get(run).dispatch # None) =>
       LET dsp == Get(Get(run).dispatch) IN
       /\ Clicked.model = AllModels <=> dsp.call = "all"
       /\ dsp.call = "priced" => (dsp.arg = Clicked.model /\ dsp.arg # AllModels)

\* C19 (as claimed): a submit in the American or European tab with a
\* maturity that passes the tab's checks builds a contract, and each field of
\* that contract is the value the user entered under that name.
C19_EnteredValuesReachContract ==
    (/\ run # None
     /\ Get(session).click \in {"american", "eu"}
     /\ Clicked.maturity >= 1
     /\ \/ Get(session).click = "american" /\ Get(run).pc \in {"eu", "dqn", "failed"}
        \/ Get(session).click = "eu" /\ Get(run).pc \in {"dqn", "failed"}
        \/ Get(run).failure # None) =>
       /\ Get(run).opt # None
       /\ Get(Get(run).opt) =
            [option_type |-> Clicked.opttype, strike |-> Clicked.k,
             spot |-> Clicked.s0, maturity |-> Clicked.maturity,
             implied_volatility |-> Clicked.iv,
             risk_free_rate |-> Clicked.r, dividend_rate |-> Clicked.d]

\* C20 (as claimed): a run in which the European form was submitted ends
\* without an unhandled failure, either with a validation error and no
\* results shown or with the results shown.
C20_EuRunEndsCleanly ==
    (run # None /\ Get(session).click = "eu"
       /\ Get(run).pc \in {"dqn", "failed"}) =>
       /\ Get(run).failure = None
       /\ LET kinds == {Get(run).shown[k].kind : k \in 1..Len(Get(run).shown)}
          IN "error" \in kinds \/ "success" \in kinds

\* the iterations of the running train call that have completed
Completed == i

\* C11 (as claimed): while train runs, in either mode, a progress value is
\* on display and it never exceeds the share of iterations that have
\* completed; when train has returned normally it shows 1.0.
C11_ProgressFaithful ==
    /\ pc # "idle" =>
          /\ bar # None
          /\ Get(bar).count <= Completed
          /\ Get(bar).num * num_iterations <= Completed * Get(bar).den
    /\ last_call = [op |-> "train", result |-> Ok] =>
          (bar # None /\ Get(bar).num = Get(bar).den)

\* C16: only a collection step adds to the replay buffer (a successful
\* build_replay_buffer replaces it by an empty one), only the sampling step of
\* an iteration reads it, and no step removes a row other than the eviction
\* of a collection step: the step-0 evaluation of train, the periodic
\* evaluations, calculate_npv and the accessors leave it as it is.
C16_BufferTouchedOnlyByIteration ==
    [][/\ repl_buffer' # repl_buffer =>
            \/ pc = "collect" /\ h_inserted' = h_inserted + 1
            \/ /\ pc = "idle" /\ last_call'.op = "build_replay_buffer"
               /\ Get(repl_buffer').items = <<>>
       /\ h_sampled' > h_sampled => pc = "sample"
       /\ last_rollout' # last_rollout =>
            (repl_buffer' = repl_buffer /\ h_sampled' <= h_sampled
             /\ h_inserted' = h_inserted)]_vars

C16_Witness ==
    /\ pc = "loop" /\ i = 1 /\ h_sampled = 1
    /\ last_rollout # None
    /\ Len(Get(log)) >= 2 /\ Get(log)[Len(Get(log))].metric = "Average Return"
    /\ Len(Get(repl_buffer).items) = 2

\* C17: every transition in the buffer was collected by the collect policy on
\* the training environment; every rollout ran the greedy policy on the
\* evaluation environment; and after a successful calculate_npv the last
\* rollout ran n_sims episodes, npv is its mean return and the model is
\* marked priced.
C17_PoliciesAndEnvironments ==
    /\ repl_buffer # None =>
          \A k \in 1..Len(Get(repl_buffer).items) :
             /\ Get(repl_buffer).items[k].env = "train_env"
             /\ Get(repl_buffer).items[k].policy = "collect_policy"
    /\ last_rollout # None =>
          /\ Get(last_rollout).policy = "policy"
          /\ Get(last_rollout).env = "eval_env"
    /\ pc # "idle" => Get(last_rollout).eps = "num_eval_episodes"
    /\ last_call = [op |-> "calculate_npv", result |-> Ok] =>
          /\ Get(last_rollout).eps = "n_sims"
          /\ npv = Some(Get(last_rollout).mean)
          /\ priced

C17_Witness ==
    /\ last_call = [op |-> "calculate_npv", result |-> Ok]
    /\ h_train_done /\ npv = Some("high") /\ priced
    /\ Len(Get(repl_buffer).items) >= 2
    /\ Len(Get(returns)) >= 2

\* the steps at which the Average Return entries of a log were measured
EvalSteps(lg) ==
    LET avgs == SelectSeq(lg, LAMBDA e : e.metric = "Average Return")
    IN [k \in 1..Len(avgs) |-> avgs[k].step]

\* C18: when train has returned normally, the Iterations column of
\* train_iteration_dict has as many elements as the Average Return column,
\* its k-th label names the optimizer step at which the k-th return was
\* measured, and the first is step 0.
C18_ChartColumnsAgree ==
    last_call = [op |-> "train", result |-> Ok] =>
       LET dict == train_iteration_dict
           avg == Get(dict.AverageReturn)
       IN /\ Len(dict.Iterations) = Len(avg)
          /\ dict.Iterations[1] = Str(0)
          /\ \A k \in 1..Len(avg) :
                dict.Iterations[k] = Str(EvalSteps(Get(log))[k])

C18_Witness ==
    /\ last_call = [op |-> "train", result |-> Ok]
    /\ num_iterations = 2 /\ eval_interval = 2
    /\ Len(Get(returns)) = 2
    /\ train_iteration_dict.Iterations = <<Str(0), Str(2)>>
====
